---------------------------- MODULE Spec2Model ----------------------------
(***************************************************************************)
(* A model of the YouTube summarizer plugin (src/src/main.ts) and of the   *)
(* extraction patterns it relies on (src/src/constants.ts).                *)
(*                                                                         *)
(* Strings are sequences of one-character strings, so that the regular     *)
(* expressions of constants.ts are matched character by character.         *)
(***************************************************************************)
EXTENDS Integers, Sequences, FiniteSets, TLC

VARIABLES
    isProcessing,   \* main.ts:22   the busy flag
    settings,       \* main.ts:18   what getSelectedModel() answers
    provider,       \* main.ts:21   0 is null, n > 0 the n-th provider made
    stored,         \* the plugin data on disk, which loadSettings reads
    saves,          \* where each call of saveData stands, and its data
    uses,           \* the provider an invocation checked, and the one it called
    command,        \* the command run, and what editor.getSelection() answered
    vault,          \* app.vault:   [folders, files]
    pc,             \* where each invocation of a command operation stands
    op,             \* which operation an invocation runs
    url,            \* the url argument of an invocation
    transcript,     \* the local `transcript` of an invocation
    log,            \* what an invocation called, was answered and notified
    probe,          \* input of the pure-function specifications
    result          \* output of the pure-function specifications

vars == <<isProcessing, settings, provider, stored, saves, uses, command,
          vault, pc, op, url, transcript, log, probe, result>>

pluginVars == <<isProcessing, settings, provider, stored, saves, uses, command,
                vault, pc, op, url, transcript, log>>

\* what initializeServices reads and assigns
services == <<settings, provider, stored, saves>>

-----------------------------------------------------------------------------
(* Bounds *)

\* how many times the commands are invoked
MaxInvocations == 3

\* how many of these invocations find the plugin idle
MaxAccepted == 2

\* how many times saveData is called
MaxSaves == 1

Invocations == 1..MaxInvocations

Saves == 1..MaxSaves

-----------------------------------------------------------------------------
(* Strings *)

Range(s) == {s[k] : k \in 1..Len(s)}

RECURSIVE Concat(_)
Concat(ss) == IF ss = <<>> THEN <<>> ELSE Head(ss) \o Concat(Tail(ss))

\* Array.prototype.join
RECURSIVE Join(_, _)
Join(ss, sep) ==
    IF ss = <<>> THEN <<>>
    ELSE IF Len(ss) = 1 THEN ss[1]
    ELSE ss[1] \o sep \o Join(Tail(ss), sep)

\* s.split(sep).length for a one-character separator
SegmentCount(s, sep) == 1 + Cardinality({k \in 1..Len(s) : s[k] = sep})

S_YouTube == <<"Y", "o", "u", "T", "u", "b", "e">>
S_unknown_channel ==
    <<"u", "n", "k", "n", "o", "w", "n", "_", "c", "h", "a", "n", "n", "e", "l">>
S_md == <<".", "m", "d">>
S_slash == <<"/">>

-----------------------------------------------------------------------------
(* saveTranscriptToFolder: the path and the content of the note *)

\* undefined, told apart from every string (no string has such a character)
Undefined == <<"undefined">>

\* the characters /[/\\?%*:|"<>]/ replaces
UnsafeFileChars == {"/", "\\", "?", "%", "*", ":", "|", "\"", "<", ">"}

\* the replacement with a class that leaves out the two slashes
SanitizeTitleKeepsSlashes(title) ==
    [k \in 1..Len(title) |->
        IF title[k] \in UnsafeFileChars \ {"/", "\\"} THEN "-" ELSE title[k]]

\* title.replace(/[/\\?%*:|"<>]/g, "-")
SanitizeTitle(title) ==
    [k \in 1..Len(title) |->
        IF title[k] \in UnsafeFileChars THEN "-" ELSE title[k]]

\* a JavaScript string is falsy exactly when it is empty; undefined is falsy
Truthy(s) == s # Undefined /\ s # <<>>

Handle(t) ==
    IF Truthy(t.channelHandle) THEN t.channelHandle ELSE S_unknown_channel

ChannelFolder(t) == S_YouTube \o S_slash \o Handle(t)

FileName(t) ==
    (IF Truthy(SanitizeTitle(t.title)) THEN SanitizeTitle(t.title) ELSE t.videoId)
        \o S_md

FilePath(t) == ChannelFolder(t) \o S_slash \o FileName(t)

\* the note: the YAML front matter, the heading, the thumbnail, the lines
Content(t, videoUrl) ==
    [title            |-> t.title,
     channel_name     |-> t.author,
     channel_username |-> Handle(t),
     video_url        |-> videoUrl,
     video_id         |-> t.videoId,
     thumbnail        |-> t.videoId,
     transcriptText   |-> Join(t.lines, <<"\n">>)]

-----------------------------------------------------------------------------
(* What the awaited collaborators can answer *)

ID_A == <<"d", "Q", "w", "4", "w", "9", "W", "g", "X", "c", "Q">>

RespFull ==
    [videoId |-> ID_A, title |-> <<"A", "/", "B">>, author |-> <<"N">>,
     channelHandle |-> <<"c", "h">>,
     lines |-> << <<"h", "i">>, <<"y", "o">> >>]

RespEmpty == [RespFull EXCEPT !.lines = <<>>]

RespNoHandle ==
    [RespFull EXCEPT !.channelHandle = Undefined, !.title = <<"C">>]

Responses == {RespFull, RespEmpty, RespNoHandle}

FetchErrors == {"InvalidUrl", "NetworkError"}

Urls == {"urlA"}

NoTranscript == [videoId |-> Undefined]

Settings == {"noModel", "noApiKey", "ready"}

Operations == {"summarizeVideo", "saveSubtitlesOnly"}

-----------------------------------------------------------------------------
(* The plugin *)

Active == {"fetching", "summarizing", "creatingFolder", "writing"}

Append2(s, a, b) == Append(Append(s, a), b)

\* main.ts:164, 235  if (this.isProcessing)
AlreadyProcessingSkipped == FALSE
AlreadyProcessing == isProcessing

\* main.ts:225-228, 268-270  finally { this.isProcessing = false }
\* `how` is how the try block was left: "return", "throw" or "end"
FinallyOnlyAtEnd(how) == how # "end"
Finally(how) == FALSE

PluginInit ==
    /\ isProcessing = FALSE
    /\ settings \in Settings
    /\ provider \in {0, 1}
    /\ settings = "noModel" => provider = 0
    /\ stored = settings
    /\ saves = [s \in Saves |-> [pc |-> "idle", data |-> "none"]]
    /\ uses = [i \in Invocations |-> [checked |-> 0, called |-> 0]]
    /\ command = [i \in Invocations |-> [id |-> "none",
                   selection |-> [text |-> Undefined, kind |-> "none", url |-> <<>>]]]
    /\ vault = [folders |-> {}, files |-> <<>>]
    /\ pc = [i \in Invocations |-> "idle"]
    /\ op = [i \in Invocations |-> "none"]
    /\ url = [i \in Invocations |-> "none"]
    /\ transcript = [i \in Invocations |-> NoTranscript]
    /\ log = [i \in Invocations |-> <<>>]

Accepted == {i \in Invocations : pc[i] \in Active \cup {"done"}}

\* invocations are numbered in the order in which they are made
NextInvocation(i) ==
    /\ pc[i] = "idle"
    /\ \A j \in Invocations : j < i => pc[j] # "idle"
    /\ isProcessing \/ Cardinality(Accepted) < MaxAccepted

\* the checks without that of this.provider
PreconditionWithoutProviderCheck ==
    IF settings = "noModel" THEN "noModel"
    ELSE IF settings = "noApiKey" THEN "noApiKey"
    ELSE "ok"

\* the precondition that fails first, or "ok"   main.ts:172-190, 241-253
Precondition ==
    IF settings = "noModel" THEN "noModel"
    ELSE IF settings = "noApiKey" THEN "noApiKey"
    ELSE IF provider = 0 THEN "noProvider"
    ELSE "ok"

\* a rejected invocation that runs the finally block as an accepted one does
BeginRejectionClearsFlag(i, o, u) ==
    /\ op' = [op EXCEPT ![i] = o]
    /\ url' = [url EXCEPT ![i] = u]
    /\ IF AlreadyProcessing
       THEN /\ pc' = [pc EXCEPT ![i] = "rejected"]
            /\ log' = [log EXCEPT ![i] = Append(@, "notice:busy")]
            /\ isProcessing' = FALSE
            /\ UNCHANGED uses
       ELSE IF Precondition # "ok"
       THEN /\ pc' = [pc EXCEPT ![i] = "done"]
            /\ log' = [log EXCEPT ![i] = Append(@, "notice:" \o Precondition)]
            /\ isProcessing' = Finally("return")
            /\ UNCHANGED uses
       ELSE /\ pc' = [pc EXCEPT ![i] = "fetching"]
            /\ log' = [log EXCEPT ![i] =
                          Append2(@, "notice:fetching", "call:fetchTranscript")]
            /\ isProcessing' = TRUE
            /\ uses' = [uses EXCEPT ![i].checked = provider]
    /\ UNCHANGED <<services, vault, transcript, probe, result>>

\* summarizeVideo / saveSubtitlesOnly up to the first await
\* main.ts:162-196, 234-257
Begin(i, o, u) ==
    /\ op' = [op EXCEPT ![i] = o]
    /\ url' = [url EXCEPT ![i] = u]
    /\ IF AlreadyProcessing
       THEN /\ pc' = [pc EXCEPT ![i] = "rejected"]
            /\ log' = [log EXCEPT ![i] = Append(@, "notice:busy")]
            /\ UNCHANGED <<isProcessing, uses>>
       ELSE IF Precondition # "ok"
       THEN /\ pc' = [pc EXCEPT ![i] = "done"]
            /\ log' = [log EXCEPT ![i] = Append(@, "notice:" \o Precondition)]
            /\ isProcessing' = Finally("return")
            /\ UNCHANGED uses
       ELSE /\ pc' = [pc EXCEPT ![i] = "fetching"]
            /\ log' = [log EXCEPT ![i] =
                          Append2(@, "notice:fetching", "call:fetchTranscript")]
            /\ isProcessing' = TRUE
            /\ uses' = [uses EXCEPT ![i].checked = provider]
    /\ UNCHANGED <<services, vault, transcript, probe, result>>

\* an operation called with a url
Invoke(i, o, u) ==
    /\ NextInvocation(i)
    /\ Begin(i, o, u)
    /\ UNCHANGED command

\* the exit of an accepted invocation through catch and finally
Leave(i, events, how) ==
    /\ pc' = [pc EXCEPT ![i] = "done"]
    /\ log' = [log EXCEPT ![i] = @ \o events]
    /\ isProcessing' = Finally(how)

\* the file check left out: vault.create whatever the vault holds
WriteCallAlwaysCreate(t) == "call:vault.create"

\* saveTranscriptToFolder from the file check on   main.ts:292-316
WriteCall(t) ==
    IF FilePath(t) \in DOMAIN vault.files THEN "call:vault.modify"
    ELSE "call:vault.create"

\* saveTranscriptToFolder up to its first await   main.ts:278-290
\* summaryText is the fourth argument of the call: "summary" or "undefined"
SaveBegin(i, t, summaryText, events) ==
    IF ChannelFolder(t) \in vault.folders
    THEN /\ pc' = [pc EXCEPT ![i] = "writing"]
         /\ log' = [log EXCEPT ![i] = @ \o events \o
                       <<"call:saveTranscriptToFolder",
                         "summaryText:" \o summaryText, WriteCall(t)>>]
    ELSE /\ pc' = [pc EXCEPT ![i] = "creatingFolder"]
         /\ log' = [log EXCEPT ![i] = @ \o events \o
                       <<"call:saveTranscriptToFolder",
                         "summaryText:" \o summaryText, "call:vault.createFolder">>]

\* a response without lines taken for a failed fetch
FetchResolveEmptyIsError(i, r) ==
    /\ pc[i] = "fetching"
    /\ transcript' = [transcript EXCEPT ![i] = r]
    /\ IF r.lines = <<>>
       THEN /\ Leave(i, <<"resolve:fetchTranscript", "notice:error">>, "return")
            /\ UNCHANGED <<services, uses, vault, op, url, command, probe,
                           result>>
       ELSE /\ IF op[i] = "summarizeVideo"
               THEN /\ pc' = [pc EXCEPT ![i] = "summarizing"]
                    /\ log' = [log EXCEPT ![i] = @ \o
                                  <<"resolve:fetchTranscript", "notice:generating",
                                    "call:provider.summarizeVideo">>]
                    /\ uses' = [uses EXCEPT ![i].called = provider]
               ELSE /\ SaveBegin(i, r, "undefined", <<"resolve:fetchTranscript">>)
                    /\ UNCHANGED uses
            /\ UNCHANGED <<isProcessing, services, vault, op, url, command,
                           probe, result>>

\* saveSubtitlesOnly asking the provider for a summary as summarizeVideo does
FetchResolveAlwaysSummarizes(i, r) ==
    /\ pc[i] = "fetching"
    /\ transcript' = [transcript EXCEPT ![i] = r]
    /\ pc' = [pc EXCEPT ![i] = "summarizing"]
    /\ log' = [log EXCEPT ![i] = @ \o
                  <<"resolve:fetchTranscript", "notice:generating",
                    "call:provider.summarizeVideo">>]
    /\ uses' = [uses EXCEPT ![i].called = provider]
    /\ UNCHANGED <<isProcessing, services, vault, op, url, command, probe,
                   result>>

\* fetchTranscript resolves   main.ts:196, 201-211 and 257, 262-263
FetchResolve(i, r) ==
    /\ pc[i] = "fetching"
    /\ transcript' = [transcript EXCEPT ![i] = r]
    /\ IF op[i] = "summarizeVideo"
       THEN /\ pc' = [pc EXCEPT ![i] = "summarizing"]
            /\ log' = [log EXCEPT ![i] = @ \o
                          <<"resolve:fetchTranscript", "notice:generating",
                            "call:provider.summarizeVideo">>]
            /\ uses' = [uses EXCEPT ![i].called = provider]
       ELSE /\ SaveBegin(i, r, "undefined", <<"resolve:fetchTranscript">>)
            /\ UNCHANGED uses
    /\ UNCHANGED <<isProcessing, services, vault, op, url, command, probe,
                   result>>

\* a catch that reports the error and goes on with a partial response
FetchRejectGoesOn(i, e) ==
    /\ pc[i] = "fetching"
    /\ transcript' = [transcript EXCEPT ![i] = RespEmpty]
    /\ SaveBegin(i, RespEmpty, "undefined", <<"reject:fetchTranscript:" \o e, "notice:error">>)
    /\ UNCHANGED <<isProcessing, services, uses, vault, op, url, command,
                   probe, result>>

\* fetchTranscript rejects   main.ts:197-200, 258-261
FetchReject(i, e) ==
    /\ pc[i] = "fetching"
    /\ Leave(i, <<"reject:fetchTranscript:" \o e, "notice:error">>, "return")
    /\ UNCHANGED <<services, uses, vault, op, url, transcript, command, probe,
                   result>>

\* provider.summarizeVideo resolves   main.ts:211, 220
SummaryResolve(i) ==
    /\ pc[i] = "summarizing"
    /\ SaveBegin(i, transcript[i], "summary", <<"resolve:provider.summarizeVideo">>)
    /\ UNCHANGED <<isProcessing, services, uses, vault, op, url, transcript,
                   command, probe, result>>

\* a catch that reports the error and saves the note all the same
SummaryRejectGoesOn(i) ==
    /\ pc[i] = "summarizing"
    /\ SaveBegin(i, transcript[i], "undefined",
                 <<"reject:provider.summarizeVideo", "notice:error">>)
    /\ UNCHANGED <<isProcessing, services, uses, vault, op, url, transcript,
                   command, probe, result>>

\* provider.summarizeVideo rejects   main.ts:212-216
SummaryReject(i) ==
    /\ pc[i] = "summarizing"
    /\ Leave(i, <<"reject:provider.summarizeVideo", "notice:error">>, "return")
    /\ UNCHANGED <<services, uses, vault, op, url, transcript, command, probe,
                   result>>

\* vault.createFolder resolves   main.ts:289, 292-316
CreateFolderResolve(i) ==
    /\ pc[i] = "creatingFolder"
    /\ vault' = [vault EXCEPT !.folders = @ \cup {ChannelFolder(transcript[i])}]
    /\ pc' = [pc EXCEPT ![i] = "writing"]
    /\ log' = [log EXCEPT ![i] = @ \o
                  <<"resolve:vault.createFolder", WriteCall(transcript[i])>>]
    /\ UNCHANGED <<isProcessing, services, uses, op, url, transcript, command,
                   probe, result>>

\* vault.createFolder rejects: the catch of the caller   main.ts:222-224, 265-267
CreateFolderReject(i) ==
    /\ pc[i] = "creatingFolder"
    /\ Leave(i, <<"reject:vault.createFolder", "notice:error">>, "throw")
    /\ UNCHANGED <<services, uses, vault, op, url, transcript, command, probe,
                   result>>

\* vault.create / vault.modify resolves   main.ts:313-315, 221, 264
WriteResolve(i) ==
    /\ pc[i] = "writing"
    /\ vault' = [vault EXCEPT !.files =
                    [p \in DOMAIN @ \cup {FilePath(transcript[i])} |->
                        IF p = FilePath(transcript[i])
                        THEN Content(transcript[i], url[i])
                        ELSE @[p]]]
    /\ Leave(i, <<"resolve:vault.write", "notice:saved">>, "end")
    /\ UNCHANGED <<services, uses, op, url, transcript, command, probe,
                   result>>

\* vault.create / vault.modify rejects   main.ts:222-224, 265-267
WriteReject(i) ==
    /\ pc[i] = "writing"
    /\ Leave(i, <<"reject:vault.write", "notice:error">>, "throw")
    /\ UNCHANGED <<services, uses, vault, op, url, transcript, command, probe,
                   result>>

Step(i) ==
    \/ \E r \in Responses : FetchResolve(i, r)
    \/ \E e \in FetchErrors : FetchReject(i, e)
    \/ SummaryResolve(i)
    \/ SummaryReject(i)
    \/ CreateFolderResolve(i)
    \/ CreateFolderReject(i)
    \/ WriteResolve(i)
    \/ WriteReject(i)

Init ==
    /\ PluginInit
    /\ probe = "none"
    /\ result = "none"

Next ==
    \/ \E i \in Invocations, o \in Operations, u \in Urls : Invoke(i, o, u)
    \/ \E i \in Invocations : Step(i)

Spec == Init /\ [][Next]_vars

\* each awaited call of an accepted invocation settles
FairSpec == Spec /\ \A i \in Invocations : WF_vars(Step(i))

-----------------------------------------------------------------------------
(* saveData and initializeServices   main.ts:42-68 *)

\* saveData calls are numbered in the order in which they are made
NextSave(s) ==
    /\ saves[s].pc = "idle"
    /\ \A r \in Saves : r < s => saves[r].pc # "idle"

\* at most this many invocations are made while saveData calls run
MaxGated == 1

\* this.provider set to null when no model is selected
InitializedProviderOrNull(selected) ==
    IF selected # "noModel" THEN provider + 1 ELSE 0

\* main.ts:64-67  this.provider after initializeServices: a new instance
\* when a model is selected, what it was otherwise
InitializedProvider(selected) ==
    IF selected # "noModel" THEN provider + 1 ELSE provider

\* saveData(data) up to await super.saveData(data)   main.ts:42-43
SaveData(s, data) ==
    /\ NextSave(s)
    /\ saves' = [saves EXCEPT ![s] = [pc |-> "storing", data |-> data]]
    /\ UNCHANGED <<isProcessing, settings, provider, stored, uses, vault, pc,
                   op, url, transcript, log, command, probe, result>>

\* super.saveData resolves; initializeServices up to await loadSettings():
\* this.settings is a new SettingsManager that has loaded nothing yet, and
\* what its getSelectedModel() answers is not fixed by main.ts   main.ts:43-56
SuperSaveDataResolve(s, unloaded) ==
    /\ saves[s].pc = "storing"
    /\ stored' = saves[s].data
    /\ settings' = unloaded
    /\ saves' = [saves EXCEPT ![s].pc = "loading"]
    /\ UNCHANGED <<isProcessing, provider, uses, vault, pc, op, url, transcript,
                   log, command, probe, result>>

\* super.saveData rejects: initializeServices is not reached   main.ts:43
SuperSaveDataReject(s) ==
    /\ saves[s].pc = "storing"
    /\ saves' = [saves EXCEPT ![s].pc = "done"]
    /\ UNCHANGED <<isProcessing, settings, provider, stored, uses, vault, pc,
                   op, url, transcript, log, command, probe, result>>

\* loadSettings resolves; the rest of initializeServices   main.ts:56-67
LoadSettingsResolve(s) ==
    /\ saves[s].pc = "loading"
    /\ settings' = stored
    /\ provider' = InitializedProvider(stored)
    /\ saves' = [saves EXCEPT ![s].pc = "done"]
    /\ UNCHANGED <<isProcessing, stored, uses, vault, pc, op, url, transcript,
                   log, command, probe, result>>

\* loadSettings rejects: initializeServices ends there   main.ts:56
LoadSettingsReject(s) ==
    /\ saves[s].pc = "loading"
    /\ saves' = [saves EXCEPT ![s].pc = "done"]
    /\ UNCHANGED <<isProcessing, settings, provider, stored, uses, vault, pc,
                   op, url, transcript, log, command, probe, result>>

SaveStep(s) ==
    \/ \E unloaded \in Settings : SuperSaveDataResolve(s, unloaded)
    \/ SuperSaveDataReject(s)
    \/ LoadSettingsResolve(s)
    \/ LoadSettingsReject(s)

\* an operation called while the settings are being saved
GatedInvoke(i, o, u) ==
    /\ Cardinality({j \in Invocations : pc[j] # "idle"}) < MaxGated
    /\ Invoke(i, o, u)

NextServices ==
    \/ \E i \in Invocations, o \in Operations, u \in Urls : GatedInvoke(i, o, u)
    \/ \E i \in Invocations : Step(i)
    \/ \E s \in Saves, data \in Settings : SaveData(s, data)
    \/ \E s \in Saves : SaveStep(s)

SpecServices == Init /\ [][NextServices]_vars

-----------------------------------------------------------------------------
(* Properties of the plugin *)

Has(lg, e) == \E k \in 1..Len(lg) : lg[k] = e

\* the first position of e in lg, 0 when it is absent
IndexOf(lg, e) ==
    IF Has(lg, e) THEN CHOOSE k \in 1..Len(lg) : lg[k] = e /\ \A j \in 1..(k-1) : lg[j] # e
    ELSE 0

VaultCalls ==
    {"call:saveTranscriptToFolder", "call:vault.createFolder",
     "call:vault.create", "call:vault.modify"}

NetworkCalls == {"call:fetchTranscript", "call:provider.summarizeVideo"}

FetchRejected(i) ==
    \E e \in FetchErrors : Has(log[i], "reject:fetchTranscript:" \o e)

FetchResolved(i) == Has(log[i], "resolve:fetchTranscript")

LaterReject(i) ==
    \/ Has(log[i], "reject:provider.summarizeVideo")
    \/ Has(log[i], "reject:vault.createFolder")
    \/ Has(log[i], "reject:vault.write")

NoCallsOf(i, calls) == \A c \in calls : ~Has(log[i], c)

InFlight == {i \in Invocations : pc[i] \in Active}

Starts(i) == pc[i] = "idle" /\ pc'[i] # "idle"

Finishes(i) == pc[i] \in Active /\ pc'[i] = "done"

\* C1  Single-flight: at most one invocation is between its busy check and
\* its finally block; an invocation that starts while isProcessing is true
\* returns at once, having called neither fetchTranscript nor the provider
\* nor the vault, and it is never run later.
C1_SingleFlight ==
    /\ [](/\ Cardinality(InFlight) <= 1
          /\ \A i \in Invocations :
                pc[i] = "rejected" => log[i] = <<"notice:busy">>)
    /\ [][\A i \in Invocations :
            /\ (Starts(i) /\ isProcessing) =>
                  /\ pc'[i] = "rejected"
                  /\ NoCallsOf(i, NetworkCalls \cup VaultCalls)'
            /\ pc[i] = "rejected" => (pc'[i] = "rejected" /\ log'[i] = log[i])]_vars

C1_Witness ==
    \E i, j \in Invocations : pc[i] \in Active /\ pc[j] = "rejected"

\* C2  No stuck busy state: every accepted invocation, whichever way it
\* leaves (a failed precondition, a rejected fetch, summary or vault call, or
\* success), ends with isProcessing false, given that its awaited calls
\* settle; the flag is true only while an invocation is in flight, so a later
\* invocation is accepted again.
C2_NoStuckBusy ==
    /\ [](isProcessing <=> InFlight # {})
    /\ \A i \in Invocations :
          (pc[i] \in Active) ~> (pc[i] = "done" /\ ~isProcessing)

C2_Witness ==
    \E i, j \in Invocations :
        /\ pc[i] = "done" /\ Has(log[i], "reject:vault.write")
        /\ pc[j] \in Active

\* C3  When fetchTranscript rejects, the invocation has no transcript, calls
\* neither provider.summarizeVideo nor the vault, and no step taken while it
\* waits for the fetch changes the vault.
C3_RejectedFetchWritesNothing ==
    /\ [](\A i \in Invocations :
            FetchRejected(i) =>
                /\ transcript[i] = NoTranscript
                /\ pc[i] = "done"
                /\ NoCallsOf(i, {"call:provider.summarizeVideo"} \cup VaultCalls))
    /\ [][\A i \in Invocations : pc[i] = "fetching" => vault' = vault]_vars

C3_Witness ==
    \E i \in Invocations :
        /\ Has(log[i], "reject:fetchTranscript:NetworkError")
        /\ vault.files # <<>>

Written(i) ==
    /\ FilePath(transcript[i]) \in DOMAIN vault.files
    /\ vault.files[FilePath(transcript[i])] = Content(transcript[i], url[i])

\* C4 as claimed: an empty-lines response always ends with the note written
\* and no error reported, and a rejected fetch with an error and no write.
C4_AsClaimed ==
    \A i \in Invocations :
        pc[i] = "done" =>
            /\ (FetchResolved(i) /\ transcript[i].lines = <<>>) =>
                  (Has(log[i], "notice:saved") /\ ~Has(log[i], "notice:error"))
            /\ FetchRejected(i) =>
                  (Has(log[i], "notice:error") /\ NoCallsOf(i, VaultCalls))

\* C4  (amended) A resolved response, with lines or without, is handled on
\* the success path: an error is reported only when provider.summarizeVideo
\* or a vault operation of that invocation rejects, and otherwise the note is
\* written with the response's metadata and its lines joined (an empty body
\* for lines = []). A rejected fetchTranscript is handled on the failure path:
\* an error is reported and nothing is written.
C4_EmptyIsNotFailure ==
    /\ [](\A i \in Invocations :
            pc[i] = "done" =>
                /\ FetchResolved(i) =>
                      /\ Has(log[i], "notice:error") <=> LaterReject(i)
                      /\ Has(log[i], "notice:saved") <=> ~LaterReject(i)
                      /\ ~FetchRejected(i)
                /\ FetchRejected(i) =>
                      /\ Has(log[i], "notice:error")
                      /\ ~Has(log[i], "notice:saved")
                      /\ NoCallsOf(i, VaultCalls))
    /\ [][\A i \in Invocations :
            (Finishes(i) /\ Has(log'[i], "notice:saved")) =>
                /\ Written(i)'
                /\ transcript[i].lines = <<>> =>
                      vault'.files[FilePath(transcript[i])].transcriptText = <<>>]_vars

C4_Witness ==
    \E i \in Invocations :
        /\ pc[i] = "done"
        /\ transcript[i] = RespEmpty
        /\ Has(log[i], "notice:saved")
        /\ Written(i)

\* the calls of the three steps, in the order the log holds them
StepCalls(i) ==
    SelectSeq(log[i], LAMBDA e : e \in NetworkCalls \cup {"call:saveTranscriptToFolder"})

IsPrefix(s, t) == Len(s) <= Len(t) /\ \A k \in 1..Len(s) : s[k] = t[k]

\* C10  summarizeVideo calls fetchTranscript, then provider.summarizeVideo,
\* then saveTranscriptToFolder, each after the one before has resolved; the
\* vault is called only after both have resolved, and never when
\* provider.summarizeVideo rejects.
C10_StepOrder ==
    \A i \in Invocations :
        op[i] = "summarizeVideo" =>
            /\ IsPrefix(StepCalls(i),
                        <<"call:fetchTranscript", "call:provider.summarizeVideo",
                          "call:saveTranscriptToFolder">>)
            /\ Has(log[i], "call:provider.summarizeVideo") =>
                  /\ FetchResolved(i)
                  /\ IndexOf(log[i], "resolve:fetchTranscript")
                        < IndexOf(log[i], "call:provider.summarizeVideo")
            /\ (\E c \in VaultCalls : Has(log[i], c)) =>
                  /\ FetchResolved(i)
                  /\ Has(log[i], "resolve:provider.summarizeVideo")
                  /\ \A c \in VaultCalls :
                        Has(log[i], c) =>
                            IndexOf(log[i], "resolve:provider.summarizeVideo")
                                < IndexOf(log[i], c)
            /\ Has(log[i], "reject:provider.summarizeVideo") =>
                  NoCallsOf(i, VaultCalls)

C10_Witness ==
    \E i, j \in Invocations :
        /\ op[i] = "summarizeVideo" /\ Has(log[i], "notice:saved")
        /\ op[j] = "summarizeVideo" /\ Has(log[j], "reject:provider.summarizeVideo")

\* how often the event e stands in lg
Count(lg, e) == Cardinality({k \in 1..Len(lg) : lg[k] = e})

\* the calls of an invocation, in the order the log holds them
Calls(i) ==
    SelectSeq(log[i], LAMBDA e : e \in NetworkCalls \cup VaultCalls
                                       \cup {"summaryText:summary", "summaryText:undefined"})

\* C11  saveSubtitlesOnly never calls provider.summarizeVideo; a run of it
\* that ends with the note saved made exactly one fetchTranscript call and,
\* after it, exactly one saveTranscriptToFolder call, without a summary
\* argument, and nothing but that save's own vault call or calls.
C11_SubtitlesOnlyNeverSummarizes ==
    \A i \in Invocations :
        op[i] = "saveSubtitlesOnly" =>
            /\ ~Has(log[i], "call:provider.summarizeVideo")
            /\ ~Has(log[i], "summaryText:summary")
            /\ ~Has(log[i], "notice:generating")
            /\ pc[i] \notin {"summarizing"}
            /\ Has(log[i], "notice:saved") =>
                  /\ Count(log[i], "call:fetchTranscript") = 1
                  /\ Count(log[i], "call:saveTranscriptToFolder") = 1
                  /\ Calls(i) \in
                        {<<"call:fetchTranscript", "call:saveTranscriptToFolder",
                           "summaryText:undefined", w>> :
                              w \in {"call:vault.create", "call:vault.modify"}}
                        \cup
                        {<<"call:fetchTranscript", "call:saveTranscriptToFolder",
                           "summaryText:undefined", "call:vault.createFolder", w>> :
                              w \in {"call:vault.create", "call:vault.modify"}}

C11_Witness ==
    \E i, j \in Invocations :
        /\ op[i] = "saveSubtitlesOnly" /\ Has(log[i], "notice:saved")
        /\ Has(log[i], "call:vault.modify")
        /\ op[j] = "summarizeVideo" /\ Has(log[j], "summaryText:summary")

\* C13  An invocation that finds isProcessing true changes nothing but its
\* own notice: the flag stays true, and the vault, the settings, the provider
\* and the other invocations are as they were; so an invocation that arrives
\* while another is in flight, after a rejection or not, is rejected too.
C13_RejectionChangesNothing ==
    /\ [][\A i \in Invocations :
            (Starts(i) /\ isProcessing) =>
                /\ pc'[i] = "rejected"
                /\ isProcessing'
                /\ vault' = vault
                /\ services' = services
                /\ uses' = uses
                /\ transcript' = transcript
                /\ \A j \in Invocations \ {i} :
                      pc'[j] = pc[j] /\ log'[j] = log[j]]_vars
    /\ [][\A i \in Invocations :
            (Starts(i) /\ InFlight # {}) => pc'[i] = "rejected"]_vars

C13_Witness ==
    \E i, j, k \in Invocations :
        /\ j < k
        /\ pc[i] \in Active /\ isProcessing
        /\ pc[j] = "rejected" /\ pc[k] = "rejected"

\* the last event of the log of an invocation
LastEvent(i) == log[i][Len(log[i])]

\* the invocation i calls vault.createFolder, or makes its file check, in the step
CallsCreateFolder(i) == pc[i] # "creatingFolder" /\ pc'[i] = "creatingFolder"

ChecksFile(i) == pc[i] # "writing" /\ pc'[i] = "writing"

\* C14  saveTranscriptToFolder calls createFolder exactly when the channel
\* folder is missing, and create when the file is missing, modify otherwise;
\* a save that completes leaves at its path the content of that save and
\* changes no other file, so each path holds one file, that of the last save
\* to it; and a save of what the vault already holds leaves the vault as it is.
C14_CreateOrOverwrite ==
    /\ [][\A i \in Invocations :
            /\ CallsCreateFolder(i) =>
                  ChannelFolder(transcript'[i]) \notin vault.folders
            /\ (ChecksFile(i) /\ pc[i] # "creatingFolder") =>
                  ChannelFolder(transcript'[i]) \in vault.folders
            /\ ChecksFile(i) =>
                  LastEvent(i)' = IF FilePath(transcript'[i]) \in DOMAIN vault'.files
                                  THEN "call:vault.modify" ELSE "call:vault.create"]_vars
    /\ [][/\ vault.folders \subseteq vault'.folders
          /\ DOMAIN vault.files \subseteq DOMAIN vault'.files
          /\ \A i \in Invocations :
                (Finishes(i) /\ Has(log'[i], "notice:saved")) =>
                    /\ Written(i)'
                    /\ DOMAIN vault'.files =
                          DOMAIN vault.files \cup {FilePath(transcript[i])}
                    /\ \A q \in DOMAIN vault.files \ {FilePath(transcript[i])} :
                          vault'.files[q] = vault.files[q]
                    /\ vault'.folders = vault.folders
                    /\ ChannelFolder(transcript[i]) \in vault.folders
                    /\ Written(i) => vault' = vault
          /\ (\A i \in Invocations : ~(Finishes(i) /\ Has(log'[i], "notice:saved")))
                => vault'.files = vault.files]_vars

\* a second save to the path of the first, with other content
C14_Witness ==
    \E i, j \in Invocations :
        /\ i < j
        /\ transcript[i] = RespFull /\ Has(log[i], "notice:saved")
        /\ Has(log[i], "call:vault.createFolder") /\ Has(log[i], "call:vault.create")
        /\ transcript[j] = RespEmpty /\ Has(log[j], "notice:saved")
        /\ ~Has(log[j], "call:vault.createFolder") /\ Has(log[j], "call:vault.modify")
        /\ DOMAIN vault.files = {FilePath(RespFull)}
        /\ vault.files[FilePath(RespFull)] = Content(RespEmpty, url[j])

\* the same transcript saved twice
C14_WitnessSameTwice ==
    \E i, j \in Invocations :
        /\ i < j
        /\ transcript[i] = RespNoHandle /\ Has(log[i], "notice:saved")
        /\ transcript[j] = RespNoHandle /\ Has(log[j], "notice:saved")
        /\ Has(log[j], "call:vault.modify")
        /\ op[i] # op[j]

\* the invocations inside saveTranscriptToFolder
Saving == {i \in Invocations : pc[i] \in {"creatingFolder", "writing"}}

\* C15  Every execution of saveTranscriptToFolder runs under the busy flag,
\* so no two of them interleave: while one is between an existence check and
\* the call that follows it, no other invocation changes the vault, and what
\* the check found missing is still missing when createFolder or create is
\* answered.
C15_SavesDoNotInterleave ==
    /\ [](/\ Cardinality(Saving) <= 1
          /\ \A i \in Saving :
                /\ isProcessing
                /\ pc[i] = "creatingFolder" =>
                      /\ LastEvent(i) = "call:vault.createFolder"
                      /\ ChannelFolder(transcript[i]) \notin vault.folders
                /\ pc[i] = "writing" =>
                      /\ LastEvent(i) \in {"call:vault.create", "call:vault.modify"}
                      /\ ChannelFolder(transcript[i]) \in vault.folders
                      /\ LastEvent(i) = "call:vault.create" <=>
                            FilePath(transcript[i]) \notin DOMAIN vault.files)
    /\ [][\A i \in Saving :
            /\ vault' # vault => pc'[i] # pc[i]
            /\ \A j \in Invocations \ {i} : pc'[j] \notin {"creatingFolder", "writing"}]_vars

\* two saves into one folder, one after the other
C15_Witness ==
    \E i, j \in Invocations :
        /\ i < j
        /\ Has(log[i], "notice:saved") /\ Has(log[i], "resolve:vault.createFolder")
        /\ pc[j] = "writing" /\ ~Has(log[j], "call:vault.createFolder")
        /\ ChannelFolder(transcript[j]) = ChannelFolder(transcript[i])

\* an invocation that has returned does nothing more
Ended(i) == pc[i] \in {"done", "rejected"}

PreconditionNotices == {"notice:noModel", "notice:noApiKey", "notice:noProvider"}

\* C12  In both operations fetchTranscript is called only in the step that
\* makes the checks, and only if at that moment a model is selected, its
\* provider has an API key and this.provider is not null; when one of the
\* three fails, the invocation ends there with its notice, the flag cleared,
\* no network call and no vault operation.
C12_PreconditionGating ==
    /\ [][\A i \in Invocations :
            /\ Count(log'[i], "call:fetchTranscript") > Count(log[i], "call:fetchTranscript")
                  => /\ Starts(i)
                     /\ ~isProcessing
                     /\ settings = "ready"
                     /\ provider # 0
            /\ (Starts(i) /\ ~isProcessing /\ ~(settings = "ready" /\ provider # 0)) =>
                  /\ pc'[i] = "done"
                  /\ Len(log'[i]) = 1 /\ log'[i][1] \in PreconditionNotices
                  /\ log'[i][1] = "notice:noModel" <=> settings = "noModel"
                  /\ log'[i][1] = "notice:noApiKey" <=> settings = "noApiKey"
                  /\ ~isProcessing'
                  /\ vault' = vault
            /\ Ended(i) => (pc'[i] = pc[i] /\ log'[i] = log[i])]_vars
    /\ [](\A i \in Invocations :
            (\E c \in NetworkCalls \cup VaultCalls : Has(log[i], c)) =>
                /\ Has(log[i], "call:fetchTranscript")
                /\ uses[i].checked # 0)

\* the settings saved while the plugin runs deselect the model; the invocation
\* made afterwards ends at the first check, the provider made earlier still set
C12_Witness ==
    \E i \in Invocations, s \in Saves :
        /\ saves[s].pc = "done" /\ stored = "noModel" /\ settings = "noModel"
        /\ provider # 0
        /\ op[i] = "saveSubtitlesOnly"
        /\ pc[i] = "done" /\ log[i] = <<"notice:noModel">>

C12_WitnessNoProvider ==
    \E i \in Invocations :
        /\ op[i] = "summarizeVideo"
        /\ pc[i] = "done" /\ log[i] = <<"notice:noProvider">>

\* C16  initializeServices assigns this.provider only when a model is
\* selected, so a provider once set is never null again; whatever saveData
\* and initializeServices do while fetchTranscript is awaited, this.provider
\* is not null when provider.summarizeVideo is called, and the instance called
\* is the one set at that moment, which may not be the one that was checked.
C16_ProviderStaysSet ==
    /\ [][provider # 0 => provider' # 0]_vars
    /\ [][\A i \in Invocations :
            (pc[i] = "fetching" /\ pc'[i] = "summarizing") =>
                /\ provider # 0
                /\ uses'[i].called = provider
                /\ uses[i].checked # 0]_vars
    /\ [](\A i \in Invocations : pc[i] \in {"fetching", "summarizing"} => provider # 0)

\* the provider called is not the one checked before the fetch
C16_Witness ==
    \E i \in Invocations :
        /\ Has(log[i], "call:provider.summarizeVideo")
        /\ uses[i].checked # 0
        /\ uses[i].called # 0
        /\ uses[i].called # uses[i].checked

-----------------------------------------------------------------------------
(* Matching, character by character *)

\* String.prototype.match answers null when the pattern matches nowhere
Null == <<"null">>

Min(S) == CHOOSE x \in S : \A y \in S : x <= y

\* the literal lit stands in s at position i
StartsAt(s, i, lit) ==
    /\ i >= 1
    /\ i + Len(lit) - 1 <= Len(s)
    /\ \A k \in 1..Len(lit) : s[i + k - 1] = lit[k]

Contains(s, lit) == \E i \in 1..(Len(s) + 1) : StartsAt(s, i, lit)

\* n characters of the class stand in s from position p on
RunOf(s, p, n, class) ==
    /\ p + n - 1 <= Len(s)
    /\ \A k \in p..(p + n - 1) : s[k] \in class

NotRun == [done |-> FALSE]

\* the plugin at rest, while a function is applied to a probe
PluginAtRest ==
    /\ PluginInit
    /\ settings = "ready"
    /\ provider = 1

-----------------------------------------------------------------------------
(* The URL Resolver: VIDEO_ID_REGEX   constants.ts:5 *)

\* [a-zA-Z0-9_-]
IdChars ==
    {"a", "b", "c", "d", "e", "f", "g", "h", "i", "j", "k", "l", "m", "n",
     "o", "p", "q", "r", "s", "t", "u", "v", "w", "x", "y", "z", "A", "B",
     "C", "D", "E", "F", "G", "H", "I", "J", "K", "L", "M", "N", "O", "P",
     "Q", "R", "S", "T", "U", "V", "W", "X", "Y", "Z", "0", "1", "2", "3",
     "4", "5", "6", "7", "8", "9", "_", "-"}

\* {11}
VideoIdLength == 11

L_v_eq == <<"v", "=">>
L_shorts_slash == <<"s", "h", "o", "r", "t", "s", "/">>

\* (?:v=|\/|shorts\/) in the order of the alternatives
VideoIdPrefixes == <<L_v_eq, S_slash, L_shorts_slash>>

\* where the capture starts when the pattern matches at position i, else 0
VideoIdCaptureAt(s, i) ==
    LET fits == {a \in 1..Len(VideoIdPrefixes) :
                    /\ StartsAt(s, i, VideoIdPrefixes[a])
                    /\ RunOf(s, i + Len(VideoIdPrefixes[a]), VideoIdLength, IdChars)}
    IN  IF fits = {} THEN 0 ELSE i + Len(VideoIdPrefixes[Min(fits)])

\* the pattern with an id of ten characters
VIDEO_ID_REGEX_ShortId(s) ==
    LET at == {i \in 1..Len(s) :
                  \E a \in 1..Len(VideoIdPrefixes) :
                      /\ StartsAt(s, i, VideoIdPrefixes[a])
                      /\ RunOf(s, i + Len(VideoIdPrefixes[a]), 10, IdChars)}
    IN  IF at = {} THEN Null
        ELSE LET i == Min(at)
                 a == Min({b \in 1..Len(VideoIdPrefixes) :
                              /\ StartsAt(s, i, VideoIdPrefixes[b])
                              /\ RunOf(s, i + Len(VideoIdPrefixes[b]), 10, IdChars)})
             IN  SubSeq(s, i + Len(VideoIdPrefixes[a]), i + Len(VideoIdPrefixes[a]) + 9)

\* s.match(VIDEO_ID_REGEX)[1]: the capture of the leftmost match, or null
VIDEO_ID_REGEX(s) ==
    LET at == {i \in 1..Len(s) : VideoIdCaptureAt(s, i) # 0}
    IN  IF at = {} THEN Null
        ELSE SubSeq(s, VideoIdCaptureAt(s, Min(at)),
                       VideoIdCaptureAt(s, Min(at)) + VideoIdLength - 1)

\* extractVideoId: the first capture group, InvalidUrl when nothing matches
extractVideoId(s) ==
    IF VIDEO_ID_REGEX(s) = Null
    THEN [ok |-> FALSE, error |-> "InvalidUrl"]
    ELSE [ok |-> TRUE, videoId |-> VIDEO_ID_REGEX(s)]

L_youtube_com_watch ==
    <<"y", "o", "u", "t", "u", "b", "e", ".", "c", "o", "m", "/", "w", "a",
      "t", "c", "h">>
L_youtu_be_slash == <<"y", "o", "u", "t", "u", ".", "b", "e", "/">>
L_youtube_com_shorts_slash ==
    <<"y", "o", "u", "t", "u", "b", "e", ".", "c", "o", "m", "/", "s", "h",
      "o", "r", "t", "s", "/">>

\* isYouTubeUrl: the watch, short-link and shorts forms of a video URL
isYouTubeUrl(s) ==
    \/ \E i \in 1..Len(s) :
          /\ StartsAt(s, i, L_youtube_com_watch)
          /\ \E j \in (i + Len(L_youtube_com_watch))..Len(s) :
                /\ StartsAt(s, j, L_v_eq)
                /\ RunOf(s, j + 2, VideoIdLength, IdChars)
    \/ \E i \in 1..Len(s) :
          /\ StartsAt(s, i, L_youtu_be_slash)
          /\ RunOf(s, i + Len(L_youtu_be_slash), VideoIdLength, IdChars)
    \/ \E i \in 1..Len(s) :
          /\ StartsAt(s, i, L_youtube_com_shorts_slash)
          /\ RunOf(s, i + Len(L_youtube_com_shorts_slash), VideoIdLength, IdChars)

(* The URLs the resolver is applied to *)

ID_B == <<"a", "_", "b", "-", "C", "_", "d", "-", "E", "_", "9">>
ID_C == <<"0", "0", "0", "0", "0", "0", "0", "0", "0", "0", "0">>
U_https == <<"h", "t", "t", "p", "s", ":", "/", "/">>
U_http == <<"h", "t", "t", "p", ":", "/", "/">>
U_www_youtube_com ==
    <<"w", "w", "w", ".", "y", "o", "u", "t", "u", "b", "e", ".", "c", "o",
      "m">>
U_youtube_com == <<"y", "o", "u", "t", "u", "b", "e", ".", "c", "o", "m">>
U_m_youtube_com ==
    <<"m", ".", "y", "o", "u", "t", "u", "b", "e", ".", "c", "o", "m">>
U_youtu_be == <<"y", "o", "u", "t", "u", ".", "b", "e">>
U_watch_q == <<"/", "w", "a", "t", "c", "h", "?">>
U_shorts == <<"/", "s", "h", "o", "r", "t", "s", "/">>
U_feature ==
    <<"f", "e", "a", "t", "u", "r", "e", "=", "s", "h", "a", "r", "e", "&">>
U_list ==
    <<"l", "i", "s", "t", "=", "P", "L", "r", "A", "X", "t", "m", "E", "r",
      "Z", "g", "O", "e", "&">>
U_t == <<"&", "t", "=", "4", "2", "s">>
U_si ==
    <<"?", "s", "i", "=", "A", "b", "C", "d", "E", "f", "G", "h", "_", "1",
      "2">>
U_vimeo_com == <<"v", "i", "m", "e", "o", ".", "c", "o", "m">>
U_nocookie ==
    <<"y", "o", "u", "t", "u", "b", "e", "-", "n", "o", "c", "o", "o", "k",
      "i", "e", ".", "c", "o", "m", "/", "e", "m", "b", "e", "d", "/">>
U_channel ==
    <<"/", "@", "s", "o", "m", "e", "_", "c", "h", "a", "n", "n", "e", "l">>
U_playlist == <<"/", "p", "l", "a", "y", "l", "i", "s", "t", "?">>
O_hello == <<"h", "e", "l", "l", "o", " ", "w", "o", "r", "l", "d">>

VideoIds == {ID_A, ID_B, ID_C}
Schemes == {U_https, U_http, <<>>}
YouTubeHosts == {U_www_youtube_com, U_youtube_com, U_m_youtube_com}

WatchUrls ==
    {[form |-> "watch", videoId |-> id,
      text |-> sch \o host \o U_watch_q \o pre \o L_v_eq \o id \o post] :
        sch \in Schemes, host \in YouTubeHosts, pre \in {<<>>, U_feature, U_list},
        id \in VideoIds, post \in {<<>>, U_t}}

ShortsUrls ==
    {[form |-> "shorts", videoId |-> id,
      text |-> sch \o host \o U_shorts \o id \o post] :
        sch \in Schemes, host \in YouTubeHosts, id \in VideoIds,
        post \in {<<>>, U_si}}

ShortLinkUrls ==
    {[form |-> "short-link", videoId |-> id,
      text |-> sch \o U_youtu_be \o S_slash \o id \o post] :
        sch \in Schemes, id \in VideoIds, post \in {<<>>, U_si}}

\* strings that are none of the three forms with an id of 11 characters
OtherStrings ==
    {[form |-> "other", videoId |-> Null, text |-> t] :
        t \in {<<>>, O_hello, ID_A,
               U_https \o U_vimeo_com \o S_slash \o ID_C,
               U_https \o U_nocookie \o ID_A,
               U_https \o U_www_youtube_com \o U_channel,
               U_https \o U_www_youtube_com \o U_playlist \o U_list,
               U_https \o U_www_youtube_com \o U_watch_q \o L_v_eq \o SubSeq(ID_A, 1, 6),
               U_https \o U_www_youtube_com \o U_shorts \o SubSeq(ID_B, 1, 10),
               U_https \o U_youtu_be \o S_slash}}

UrlProbes == WatchUrls \cup ShortsUrls \cup ShortLinkUrls \cup OtherStrings

InitUrl ==
    /\ PluginAtRest
    /\ probe \in UrlProbes
    /\ result = NotRun

\* the resolver applied to the probe
ResolveUrl ==
    /\ result = NotRun
    /\ result' = [done |-> TRUE,
                  isYouTubeUrl |-> isYouTubeUrl(probe.text),
                  extracted |-> extractVideoId(probe.text)]
    /\ UNCHANGED <<probe, pluginVars>>

NextUrl == ResolveUrl

SpecUrl == InitUrl /\ [][NextUrl]_vars

\* C7  For every watch, shorts and short-link URL holding an id of 11
\* characters, extractVideoId (the first capture of the first match of
\* VIDEO_ID_REGEX) answers exactly that id, and isYouTubeUrl accepts it; for
\* every other string isYouTubeUrl answers false.
C7_VideoIdOfValidUrl ==
    result.done =>
        /\ probe.form # "other" =>
              /\ result.extracted = [ok |-> TRUE, videoId |-> probe.videoId]
              /\ result.isYouTubeUrl
        /\ probe.form = "other" => ~result.isYouTubeUrl

C7_Witness ==
    /\ result.done
    /\ probe.form = "watch"
    /\ probe.text = U_https \o U_www_youtube_com \o U_watch_q \o U_list
                        \o L_v_eq \o ID_B \o U_t
    /\ result.extracted.videoId = ID_B

-----------------------------------------------------------------------------
(* The Metadata Extractor: TITLE_REGEX, AUTHOR_REGEX, TITLE_META_REGEX,    *)
(* CHANNEL_HANDLE_REGEX   constants.ts:2, 8, 26, 37                        *)

\* characters \s matches
Ws == {" ", "\t", "\n", "\r"}

\* the first position from p on that holds no character of the class
SkipIn(s, p, class) ==
    Min({q \in p..(Len(s) + 1) : q = Len(s) + 1 \/ s[q] \notin class})

\* the first position from p on that holds a character of stops
SkipTo(s, p, stops) ==
    Min({q \in p..(Len(s) + 1) : q = Len(s) + 1 \/ s[q] \in stops})

L_title_key == <<"\"", "t", "i", "t", "l", "e", "\"", ":", "\"">>
L_author_key == <<"\"", "a", "u", "t", "h", "o", "r", "\"", ":", "\"">>

\* the end of the longest run of (?:[^"\\]|\\"|\\\\) from p on
RECURSIVE EscapedRunEnd(_, _)
EscapedRunEnd(s, p) ==
    IF p > Len(s) THEN p
    ELSE IF s[p] \notin {"\"", "\\"} THEN EscapedRunEnd(s, p + 1)
    ELSE IF s[p] = "\\" /\ p + 1 <= Len(s) /\ s[p + 1] \in {"\"", "\\"}
         THEN EscapedRunEnd(s, p + 2)
    ELSE p

\* the run without the alternative \\\\: a backslash ends it unless a quote follows
RECURSIVE EscapedRunEndNoBackslash(_, _)
EscapedRunEndNoBackslash(s, p) ==
    IF p > Len(s) THEN p
    ELSE IF s[p] \notin {"\"", "\\"} THEN EscapedRunEndNoBackslash(s, p + 1)
    ELSE IF s[p] = "\\" /\ p + 1 <= Len(s) /\ s[p + 1] = "\""
         THEN EscapedRunEndNoBackslash(s, p + 2)
    ELSE p

\* /key((?:[^"\\]|\\"|\\\\)+)"/ matches at position i
QuotedFieldAt(s, i, key) ==
    /\ StartsAt(s, i, key)
    /\ EscapedRunEnd(s, i + Len(key)) > i + Len(key)
    /\ EscapedRunEnd(s, i + Len(key)) <= Len(s)
    /\ s[EscapedRunEnd(s, i + Len(key))] = "\""

\* the capture of the leftmost match of /key((?:[^"\\]|\\"|\\\\)+)"/, or null
QuotedField(s, key) ==
    LET at == {i \in 1..Len(s) : QuotedFieldAt(s, i, key)}
    IN  IF at = {} THEN Null
        ELSE SubSeq(s, Min(at) + Len(key),
                       EscapedRunEnd(s, Min(at) + Len(key)) - 1)

\* TITLE_REGEX with (?:[^"\\]|\\")+ for its group
TITLE_REGEX_NoBackslash(s) ==
    LET at == {i \in 1..Len(s) :
                  /\ StartsAt(s, i, L_title_key)
                  /\ EscapedRunEndNoBackslash(s, i + Len(L_title_key)) > i + Len(L_title_key)
                  /\ EscapedRunEndNoBackslash(s, i + Len(L_title_key)) <= Len(s)
                  /\ s[EscapedRunEndNoBackslash(s, i + Len(L_title_key))] = "\""}
    IN  IF at = {} THEN Null
        ELSE SubSeq(s, Min(at) + Len(L_title_key),
                       EscapedRunEndNoBackslash(s, Min(at) + Len(L_title_key)) - 1)

\* /"title":"((?:[^"\\]|\\"|\\\\)+)"/
TITLE_REGEX(s) == QuotedField(s, L_title_key)

\* /"author":"((?:[^"\\]|\\"|\\\\)+)"/
AUTHOR_REGEX(s) == QuotedField(s, L_author_key)

L_meta == <<"<", "m", "e", "t", "a">>
L_name_title ==
    <<"n", "a", "m", "e", "=", "\"", "t", "i", "t", "l", "e", "\"">>
L_itemprop_name ==
    <<"i", "t", "e", "m", "p", "r", "o", "p", "=", "\"", "n", "a", "m", "e",
      "\"">>
L_content == <<"c", "o", "n", "t", "e", "n", "t", "=", "\"">>
L_quote_gt == <<"\"", ">">>

\* (?:name="title"|itemprop="name")
TitleMetaAttributes == <<L_name_title, L_itemprop_name>>

\* where the capture of TITLE_META_REGEX starts for a match at i, else 0
TitleMetaCaptureAt(s, i) ==
    IF ~(StartsAt(s, i, L_meta) /\ SkipIn(s, i + Len(L_meta), Ws) > i + Len(L_meta))
    THEN 0
    ELSE LET a == SkipIn(s, i + Len(L_meta), Ws)
             fits == {k \in 1..Len(TitleMetaAttributes) :
                         StartsAt(s, a, TitleMetaAttributes[k])}
         IN  IF fits = {} THEN 0
             ELSE LET b == a + Len(TitleMetaAttributes[Min(fits)])
                      c == SkipIn(s, b, Ws)
                  IN  IF /\ c > b
                         /\ StartsAt(s, c, L_content)
                         /\ StartsAt(s, SkipTo(s, c + Len(L_content), {"\""}), L_quote_gt)
                      THEN c + Len(L_content)
                      ELSE 0

\* /<meta\s+(?:name="title"|itemprop="name")\s+content="([^"]*)">/
TITLE_META_REGEX(s) ==
    LET at == {i \in 1..Len(s) : TitleMetaCaptureAt(s, i) # 0}
    IN  IF at = {} THEN Null
        ELSE SubSeq(s, TitleMetaCaptureAt(s, Min(at)),
                       SkipTo(s, TitleMetaCaptureAt(s, Min(at)), {"\""}) - 1)

L_link == <<"<", "l", "i", "n", "k">>
L_itemprop_url ==
    <<"i", "t", "e", "m", "p", "r", "o", "p", "=", "\"", "u", "r", "l", "\"">>
L_href == <<"h", "r", "e", "f", "=", "\"", "h", "t", "t", "p">>
L_www_youtube_at ==
    <<":", "/", "/", "w", "w", "w", ".", "y", "o", "u", "t", "u", "b", "e",
      ".", "c", "o", "m", "/", "@">>

\* [a-zA-Z0-9_.-]
HandleChars == IdChars \cup {"."}

\* where the capture of CHANNEL_HANDLE_REGEX starts for a match at i, else 0
ChannelHandleCaptureAt(s, i) ==
    IF ~(StartsAt(s, i, L_link) /\ SkipIn(s, i + Len(L_link), Ws) > i + Len(L_link))
    THEN 0
    ELSE LET a == SkipIn(s, i + Len(L_link), Ws)
             b == a + Len(L_itemprop_url)
             c == SkipIn(s, b, Ws)
             d == c + Len(L_href)
             e == IF d <= Len(s) /\ s[d] = "s" THEN d + 1 ELSE d
             f == e + Len(L_www_youtube_at)
         IN  IF /\ StartsAt(s, a, L_itemprop_url)
                /\ c > b
                /\ StartsAt(s, c, L_href)
                /\ StartsAt(s, e, L_www_youtube_at)
                /\ SkipIn(s, f, HandleChars) > f
                /\ SkipIn(s, f, HandleChars) <= Len(s)
                /\ s[SkipIn(s, f, HandleChars)] = "\""
             THEN f
             ELSE 0

\* /<link\s+itemprop="url"\s+href="https?:\/\/www\.youtube\.com\/@([a-zA-Z0-9_.-]+)"/
CHANNEL_HANDLE_REGEX(s) ==
    LET at == {i \in 1..Len(s) : ChannelHandleCaptureAt(s, i) # 0}
    IN  IF at = {} THEN Null
        ELSE SubSeq(s, ChannelHandleCaptureAt(s, Min(at)),
                       SkipIn(s, ChannelHandleCaptureAt(s, Min(at)), HandleChars) - 1)

\* \" becomes " and \\ becomes \, each escape sequence once, left to right
RECURSIVE Unescape(_)
Unescape(raw) ==
    IF raw = <<>> THEN <<>>
    ELSE IF raw[1] = "\\" /\ Len(raw) >= 2 /\ raw[2] \in {"\"", "\\"}
         THEN <<raw[2]>> \o Unescape(SubSeq(raw, 3, Len(raw)))
    ELSE <<raw[1]>> \o Unescape(Tail(raw))

S_Unknown == <<"U", "n", "k", "n", "o", "w", "n">>

\* the title: the inline JSON field, else the meta tag, else a placeholder
ExtractTitle(html) ==
    IF TITLE_REGEX(html) # Null THEN Unescape(TITLE_REGEX(html))
    ELSE IF TITLE_META_REGEX(html) # Null /\ TITLE_META_REGEX(html) # <<>>
         THEN TITLE_META_REGEX(html)
    ELSE S_Unknown

\* the author: the inline JSON field, else a placeholder
ExtractAuthor(html) ==
    IF AUTHOR_REGEX(html) # Null THEN Unescape(AUTHOR_REGEX(html)) ELSE S_Unknown

\* the channel handle: the capture of the link tag, else undefined
ExtractChannelHandle(html) ==
    IF CHANNEL_HANDLE_REGEX(html) # Null THEN CHANNEL_HANDLE_REGEX(html)
    ELSE Undefined

ExtractMetadata(html) ==
    [title |-> ExtractTitle(html),
     author |-> ExtractAuthor(html),
     channelHandle |-> ExtractChannelHandle(html)]

(* The pages the title is extracted from *)

\* the longest title written into a page
MaxTitleLen == 4

TitleChars == {"a", " ", "\"", "\\"}

RECURSIVE StringsUpTo(_, _)
StringsUpTo(chars, n) ==
    IF n = 0 THEN {<<>>}
    ELSE StringsUpTo(chars, n - 1)
            \cup {Append(t, c) : t \in StringsUpTo(chars, n - 1), c \in chars}

\* how a JSON serializer writes a string: " as \" and \ as \\
RECURSIVE JsonEscape(_)
JsonEscape(t) ==
    IF t = <<>> THEN <<>>
    ELSE (IF t[1] \in {"\"", "\\"} THEN <<"\\", t[1]>> ELSE <<t[1]>>)
            \o JsonEscape(Tail(t))

T_quoted ==
    <<"A", " ", "\"", "q", "u", "o", "t", "e", "d", "\"", " ", "t", "i", "t",
      "l", "e">>
H_meta_title ==
    <<"<", "m", "e", "t", "a", " ", "n", "a", "m", "e", "=", "\"", "t", "i",
      "t", "l", "e", "\"", " ", "c", "o", "n", "t", "e", "n", "t", "=", "\"",
      "M", "\"", ">">>
H_video_details ==
    <<"{", "\"", "v", "i", "d", "e", "o", "D", "e", "t", "a", "i", "l", "s",
      "\"", ":", "{">>
H_after_title ==
    <<",", "\"", "l", "e", "n", "g", "t", "h", "S", "e", "c", "o", "n", "d",
      "s", "\"", ":", "\"", "9", "\"", "}", "}">>

Titles == (StringsUpTo(TitleChars, MaxTitleLen) \ {<<>>}) \cup {T_quoted}

TitleProbes ==
    {[title |-> t,
      html |-> before \o H_video_details \o L_title_key \o JsonEscape(t)
                  \o <<"\"">> \o H_after_title] :
        t \in Titles, before \in {<<>>, H_meta_title}}

InitTitle ==
    /\ PluginAtRest
    /\ probe \in TitleProbes
    /\ result = NotRun

\* the Metadata Extractor applied to the page
ExtractFromPage ==
    /\ result = NotRun
    /\ result' = [done |-> TRUE, metadata |-> ExtractMetadata(probe.html)]
    /\ UNCHANGED <<probe, pluginVars>>

NextTitle == ExtractFromPage

SpecTitle == InitTitle /\ [][NextTitle]_vars

\* C8  For a page whose inline JSON title field holds escaped quotes and
\* backslashes, the title surfaced is the string the field encodes: what
\* TITLE_REGEX captures with each \" and \\ resolved exactly once.
C8_TitleUnescapedOnce ==
    result.done => result.metadata.title = probe.title

C8_Witness ==
    /\ result.done
    /\ probe.title = T_quoted
    /\ TITLE_REGEX(probe.html) = JsonEscape(T_quoted)
    /\ result.metadata.title = T_quoted

-----------------------------------------------------------------------------
(* The path of the note: saveTranscriptToFolder applied to a response whose *)
(* channel handle went through CHANNEL_HANDLE_REGEX                         *)

\* the longest title of a note
MaxNoteTitleLen == 3

NoteTitleChars == {"a", ".", "/", "\\"}

NoteTitles ==
    StringsUpTo(NoteTitleChars, MaxNoteTitleLen)
        \cup {<<"a", c, "b">> : c \in UnsafeFileChars}

H_link_open ==
    <<"<", "l", "i", "n", "k", " ", "i", "t", "e", "m", "p", "r", "o", "p",
      "=", "\"", "u", "r", "l", "\"", " ", "h", "r", "e", "f", "=", "\"",
      "h", "t", "t", "p", "s", ":", "/", "/", "w", "w", "w", ".", "y", "o",
      "u", "t", "u", "b", "e", ".", "c", "o", "m", "/", "@">>
H_link_http ==
    <<"<", "l", "i", "n", "k", " ", " ", "i", "t", "e", "m", "p", "r", "o",
      "p", "=", "\"", "u", "r", "l", "\"", "\n", " ", "h", "r", "e", "f",
      "=", "\"", "h", "t", "t", "p", ":", "/", "/", "w", "w", "w", ".", "y",
      "o", "u", "t", "u", "b", "e", ".", "c", "o", "m", "/", "@">>

\* what stands after the @ of the link tag; the last three are no handles
HandleTexts ==
    {<<"a">>, <<"a", ".", "b">>, <<".", ".">>, <<"-", "_", "9">>,
     <<>>, <<"a", "/", "b">>, <<"a", " ", "b">>}

PathProbes ==
    {[title |-> t, videoId |-> id, handleText |-> h,
      html |-> open \o h \o L_quote_gt] :
        t \in NoteTitles, id \in {ID_A, ID_B}, h \in HandleTexts,
        open \in {H_link_open, H_link_http}}
    \cup
    {[title |-> t, videoId |-> id, handleText |-> <<>>, html |-> H_meta_title] :
        t \in NoteTitles, id \in {ID_A, ID_B}}

\* the response assembled for the probe
ProbeTranscript ==
    [videoId |-> probe.videoId, title |-> probe.title, author |-> S_Unknown,
     channelHandle |-> ExtractChannelHandle(probe.html), lines |-> <<>>]

InitPath ==
    /\ PluginAtRest
    /\ probe \in PathProbes
    /\ result = NotRun

\* saveTranscriptToFolder into the empty vault, its vault calls resolving
\* main.ts:278-317
SaveNote ==
    /\ result = NotRun
    /\ result' = [done |-> TRUE, transcript |-> ProbeTranscript]
    /\ vault' = [folders |-> {ChannelFolder(ProbeTranscript)},
                 files |-> [q \in {FilePath(ProbeTranscript)} |->
                               Content(ProbeTranscript, "urlA")]]
    /\ UNCHANGED <<probe, isProcessing, services, uses, command, pc, op, url,
                   transcript, log>>

NextPath == SaveNote

SpecPath == InitPath /\ [][NextPath]_vars

\* the segments between the slashes of a path
RECURSIVE SplitAtSlash(_)
SplitAtSlash(path) ==
    LET cut == SkipTo(path, 1, {"/"})
    IN  IF cut > Len(path) THEN <<path>>
        ELSE <<SubSeq(path, 1, cut - 1)>>
                \o SplitAtSlash(SubSeq(path, cut + 1, Len(path)))

IsHandle(h) == h # <<>> /\ \A k \in 1..Len(h) : h[k] \in HandleChars

\* the stem the claim describes for a title
StemOf(title, videoId, stem) ==
    IF title = <<>> THEN stem = videoId
    ELSE /\ Len(stem) = Len(title)
         /\ \A k \in 1..Len(title) :
               stem[k] = IF title[k] \in {"/", "\\", "?", "%", "*", ":", "|", "\"", "<", ">"}
                         THEN "-" ELSE title[k]

\* C9  Every path saveTranscriptToFolder writes is YouTube/<folder>/<stem>.md:
\* <folder> is the channel handle, or unknown_channel when there is none;
\* <stem> is not empty, being the title with each of / \ ? % * : | " < >
\* replaced by -, or the videoId for an empty title; neither holds a path
\* separator, so the path has exactly three segments.
C9_NotePath ==
    result.done =>
        \A path \in DOMAIN vault.files :
            LET segs == SplitAtSlash(path)
            IN  /\ Len(segs) = 3
                /\ segs[1] = S_YouTube
                /\ segs[2] = IF IsHandle(probe.handleText) /\ probe.html # H_meta_title
                             THEN probe.handleText ELSE S_unknown_channel
                /\ Len(segs[3]) > Len(S_md)
                /\ SubSeq(segs[3], Len(segs[3]) - 2, Len(segs[3])) = S_md
                /\ StemOf(probe.title, probe.videoId,
                          SubSeq(segs[3], 1, Len(segs[3]) - 3))
                /\ \A k \in 1..Len(path) : path[k] # "\\"
                /\ S_YouTube \o S_slash \o segs[2] \in vault.folders

C9_Witness ==
    /\ result.done
    /\ probe.title = <<"a", "/", "\\">>
    /\ probe.handleText = <<"a", ".", "b">>
    /\ probe.html # H_meta_title
    /\ DOMAIN vault.files =
          {S_YouTube \o <<"/", "a", ".", "b", "/", "a", "-", "-", ".", "m", "d">>}

C9_WitnessFallbacks ==
    /\ result.done
    /\ probe.title = <<>>
    /\ probe.handleText = <<"a", "/", "b">>
    /\ DOMAIN vault.files =
          {S_YouTube \o S_slash \o S_unknown_channel \o S_slash \o probe.videoId \o S_md}

-----------------------------------------------------------------------------
(* The Embedded-Data Extractor: YT_INITIAL_DATA_REGEX and its three        *)
(* alternatives   constants.ts:14-19                                       *)

L_var_ytInitialData ==
    <<"v", "a", "r", " ", "y", "t", "I", "n", "i", "t", "i", "a", "l", "D",
      "a", "t", "a">>
L_window_ytInitialData ==
    <<"w", "i", "n", "d", "o", "w", ".", "y", "t", "I", "n", "i", "t", "i",
      "a", "l", "D", "a", "t", "a">>
L_ytInitialData ==
    <<"y", "t", "I", "n", "i", "t", "i", "a", "l", "D", "a", "t", "a">>
L_quoted_ytInitialData ==
    <<"\"", "y", "t", "I", "n", "i", "t", "i", "a", "l", "D", "a", "t", "a",
      "\"">>

\* the last position of the capture ({[\s\S]+?}) that opens at `open`, with
\* the semicolon of }; after it when the pattern has one; 0 when there is none
LazyObjectEnd(s, open, semicolon) ==
    LET ends == {q \in (open + 2)..Len(s) :
                    /\ s[q] = "}"
                    /\ semicolon => (q + 1 <= Len(s) /\ s[q + 1] = ";")}
    IN  IF ends = {} THEN 0 ELSE Min(ends)

\* the same for the greedy ({[\s\S]+})
GreedyObjectEnd(s, open, semicolon) ==
    LET ends == {q \in (open + 2)..Len(s) :
                    /\ s[q] = "}"
                    /\ semicolon => (q + 1 <= Len(s) /\ s[q + 1] = ";")}
    IN  IF ends = {} THEN 0 ELSE CHOOSE q \in ends : \A r \in ends : r <= q

\* where the capture of /prefix\s*sep\s*({[\s\S]+?})/ opens for a match at i, else 0
ObjectOpenAt(s, i, prefix, sep) ==
    IF ~StartsAt(s, i, prefix) THEN 0
    ELSE LET a == SkipIn(s, i + Len(prefix), Ws)
             b == SkipIn(s, a + 1, Ws)
         IN  IF a <= Len(s) /\ s[a] = sep /\ b <= Len(s) /\ s[b] = "{"
             THEN b ELSE 0

\* the capture of the leftmost match of /prefix\s*sep\s*({[\s\S]+?})[;]/, or null
AssignedObject(s, prefix, sep, semicolon) ==
    LET at == {i \in 1..Len(s) :
                  /\ ObjectOpenAt(s, i, prefix, sep) # 0
                  /\ LazyObjectEnd(s, ObjectOpenAt(s, i, prefix, sep), semicolon) # 0}
    IN  IF at = {} THEN Null
        ELSE SubSeq(s, ObjectOpenAt(s, Min(at), prefix, sep),
                       LazyObjectEnd(s, ObjectOpenAt(s, Min(at), prefix, sep), semicolon))

\* /var ytInitialData\s*=\s*({[\s\S]+?});/
YT_INITIAL_DATA_REGEX(s) == AssignedObject(s, L_var_ytInitialData, "=", TRUE)

\* the first alternative without its window\. prefix
YT_INITIAL_DATA_ALT_REGEX_1_NoWindow(s) ==
    AssignedObject(s, L_ytInitialData, "=", TRUE)

\* /window\.ytInitialData\s*=\s*({[\s\S]+?});/
YT_INITIAL_DATA_ALT_REGEX_1(s) ==
    AssignedObject(s, L_window_ytInitialData, "=", TRUE)

\* /ytInitialData\s*=\s*({[\s\S]+?});/
YT_INITIAL_DATA_ALT_REGEX_2(s) == AssignedObject(s, L_ytInitialData, "=", TRUE)

\* the third alternative with a greedy group, ({[\s\S]+})
YT_INITIAL_DATA_ALT_REGEX_3_Greedy(s) ==
    LET at == {i \in 1..Len(s) :
                  /\ ObjectOpenAt(s, i, L_quoted_ytInitialData, ":") # 0
                  /\ GreedyObjectEnd(s, ObjectOpenAt(s, i, L_quoted_ytInitialData, ":"),
                                     FALSE) # 0}
    IN  IF at = {} THEN Null
        ELSE SubSeq(s, ObjectOpenAt(s, Min(at), L_quoted_ytInitialData, ":"),
                       GreedyObjectEnd(s, ObjectOpenAt(s, Min(at), L_quoted_ytInitialData, ":"),
                                       FALSE))

\* /"ytInitialData"\s*:\s*({[\s\S]+?})/
YT_INITIAL_DATA_ALT_REGEX_3(s) ==
    AssignedObject(s, L_quoted_ytInitialData, ":", FALSE)

(* JSON.parse accepts the text: objects, arrays, strings and digits *)

Digits == {"0", "1", "2", "3", "4", "5", "6", "7", "8", "9"}

\* the position after the string that opens at p, 0 when it does not close
RECURSIVE JsonStringRest(_, _)
JsonStringRest(s, q) ==
    IF q > Len(s) THEN 0
    ELSE IF s[q] = "\"" THEN q + 1
    ELSE IF s[q] = "\\" THEN JsonStringRest(s, q + 2)
    ELSE JsonStringRest(s, q + 1)

JsonStringEnd(s, p) ==
    IF p <= Len(s) /\ s[p] = "\"" THEN JsonStringRest(s, p + 1) ELSE 0

RECURSIVE JsonValueEnd(_, _), JsonMembersEnd(_, _), JsonElementsEnd(_, _)

\* the position after the value that starts at or after p, 0 when there is none
JsonValueEnd(s, p) ==
    LET v == SkipIn(s, p, Ws)
    IN  IF p = 0 \/ v > Len(s) THEN 0
        ELSE IF s[v] = "{"
             THEN IF SkipIn(s, v + 1, Ws) <= Len(s) /\ s[SkipIn(s, v + 1, Ws)] = "}"
                  THEN SkipIn(s, v + 1, Ws) + 1
                  ELSE JsonMembersEnd(s, SkipIn(s, v + 1, Ws))
        ELSE IF s[v] = "["
             THEN IF SkipIn(s, v + 1, Ws) <= Len(s) /\ s[SkipIn(s, v + 1, Ws)] = "]"
                  THEN SkipIn(s, v + 1, Ws) + 1
                  ELSE JsonElementsEnd(s, v + 1)
        ELSE IF s[v] = "\"" THEN JsonStringEnd(s, v)
        ELSE IF s[v] \in Digits THEN SkipIn(s, v, Digits)
        ELSE 0

\* "key" : value, then a comma and more members, or the closing brace
JsonMembersEnd(s, p) ==
    LET k == JsonStringEnd(s, p)
        c == IF k = 0 THEN 0 ELSE SkipIn(s, k, Ws)
        e == IF c = 0 \/ c > Len(s) \/ s[c] # ":" THEN 0 ELSE JsonValueEnd(s, c + 1)
        w == IF e = 0 THEN 0 ELSE SkipIn(s, e, Ws)
    IN  IF w = 0 \/ w > Len(s) THEN 0
        ELSE IF s[w] = "}" THEN w + 1
        ELSE IF s[w] = "," THEN JsonMembersEnd(s, SkipIn(s, w + 1, Ws))
        ELSE 0

\* value, then a comma and more elements, or the closing bracket
JsonElementsEnd(s, p) ==
    LET e == JsonValueEnd(s, p)
        w == IF e = 0 THEN 0 ELSE SkipIn(s, e, Ws)
    IN  IF w = 0 \/ w > Len(s) THEN 0
        ELSE IF s[w] = "]" THEN w + 1
        ELSE IF s[w] = "," THEN JsonElementsEnd(s, w + 1)
        ELSE 0

JsonValid(s) ==
    /\ JsonValueEnd(s, 1) # 0
    /\ SkipIn(s, JsonValueEnd(s, 1), Ws) = Len(s) + 1

\* the four patterns in the order in which they are tried
InitialDataCapture(html, k) ==
    IF k = 1 THEN YT_INITIAL_DATA_REGEX(html)
    ELSE IF k = 2 THEN YT_INITIAL_DATA_ALT_REGEX_1(html)
    ELSE IF k = 3 THEN YT_INITIAL_DATA_ALT_REGEX_2(html)
    ELSE YT_INITIAL_DATA_ALT_REGEX_3(html)

PatternCount == 4

\* patterns k, k+1, ... tried in turn until one matches and parses
RECURSIVE TryPatterns(_, _)
TryPatterns(html, k) ==
    IF k > PatternCount
    THEN [found |-> FALSE, tried |-> PatternCount]
    ELSE LET capture == InitialDataCapture(html, k)
         IN  IF capture # Null /\ JsonValid(capture)
             THEN [found |-> TRUE, tried |-> k, data |-> capture]
             ELSE TryPatterns(html, k + 1)

ExtractInitialData(html) == TryPatterns(html, 1)

-----------------------------------------------------------------------------
(* fetchTranscript: Resolver, Fetcher, the two extractors, Caption Track   *)
(* Resolver, Transcript Assembler                                          *)

L_captionTracks ==
    <<"\"", "c", "a", "p", "t", "i", "o", "n", "T", "r", "a", "c", "k", "s",
      "\"", ":", "[">>

\* the parsed data lists at least one caption track
HasCaptionTracks(data) ==
    \E i \in 1..Len(data) :
        /\ StartsAt(data, i, L_captionTracks)
        /\ i + Len(L_captionTracks) <= Len(data)
        /\ data[i + Len(L_captionTracks)] # "]"

\* a 2xx answer
IsSuccess(status) == status \in 200..299

\* the lines of the caption payload the second fetch answers with
CaptionLines == << <<"h", "i">>, <<"y", "o">> >>

Respond(videoId, metadata, lines, recovered) ==
    [ok |-> TRUE, recovered |-> recovered,
     response |-> [videoId |-> videoId,
                   title |-> metadata.title,
                   author |-> metadata.author,
                   channelHandle |-> metadata.channelHandle,
                   lines |-> lines]]

\* the stages after the page fetch: the two extractors, then the caption
\* fetch when the embedded data lists a track
AfterPageFetch(videoId, html, captionStatus, embedded) ==
    IF ~embedded.found
    THEN Respond(videoId, ExtractMetadata(html), <<>>, "EmbeddedDataNotFound")
    ELSE IF ~HasCaptionTracks(embedded.data)
    THEN Respond(videoId, ExtractMetadata(html), <<>>, "NoCaptionsAvailable")
    ELSE IF ~IsSuccess(captionStatus)
    THEN [ok |-> FALSE, error |-> "NetworkError"]
    ELSE Respond(videoId, ExtractMetadata(html), CaptionLines, "nothing")

\* fetchTranscript(url), the network answering as the probe says
fetchTranscript(p) ==
    IF ~extractVideoId(p.url).ok
    THEN [ok |-> FALSE, error |-> "InvalidUrl"]
    ELSE IF ~IsSuccess(p.pageStatus)
    THEN [ok |-> FALSE, error |-> "NetworkError"]
    ELSE AfterPageFetch(extractVideoId(p.url).videoId, p.html, p.captionStatus,
                        ExtractInitialData(p.html))

(* The pages fetchTranscript is applied to *)

\* how many ytInitialData declarations a page holds at most
MaxDecls == 2

B_tracks ==
    <<"{", "\"", "c", "a", "p", "t", "i", "o", "n", "T", "r", "a", "c", "k",
      "s", "\"", ":", "[", "\"", "u", "\"", "]", "}">>
B_empty ==
    <<"{", "\"", "c", "a", "p", "t", "i", "o", "n", "T", "r", "a", "c", "k",
      "s", "\"", ":", "[", "]", "}">>
B_absent == <<"{", "\"", "a", "\"", ":", "1", "}">>
B_nested ==
    <<"{", "\"", "r", "\"", ":", "{", "\"", "c", "a", "p", "t", "i", "o",
      "n", "T", "r", "a", "c", "k", "s", "\"", ":", "[", "\"", "u", "\"",
      "]", "}", "}">>
B_invalid == <<"{", "\"", "a", "\"", ":", "}">>

\* the objects a declaration assigns: the text, whether it is valid JSON,
\* whether an object is nested in it, whether it lists a caption track
Bodies ==
    {[text |-> B_tracks,  valid |-> TRUE,  nested |-> FALSE, tracks |-> TRUE],
     [text |-> B_empty,   valid |-> TRUE,  nested |-> FALSE, tracks |-> FALSE],
     [text |-> B_absent,  valid |-> TRUE,  nested |-> FALSE, tracks |-> FALSE],
     [text |-> B_nested,  valid |-> TRUE,  nested |-> TRUE,  tracks |-> TRUE],
     [text |-> B_invalid, valid |-> FALSE, nested |-> FALSE, tracks |-> FALSE]}

H_script == <<"<", "s", "c", "r", "i", "p", "t", ">">>
H_script_end == <<"<", "/", "s", "c", "r", "i", "p", "t", ">">>
H_var ==
    <<"v", "a", "r", " ", "y", "t", "I", "n", "i", "t", "i", "a", "l", "D",
      "a", "t", "a", " ", "=", " ">>
H_window ==
    <<"w", "i", "n", "d", "o", "w", ".", "y", "t", "I", "n", "i", "t", "i",
      "a", "l", "D", "a", "t", "a", "=">>
H_bare ==
    <<"a", ";", "y", "t", "I", "n", "i", "t", "i", "a", "l", "D", "a", "t",
      "a", " ", "=">>
H_property ==
    <<"\"", "y", "t", "I", "n", "i", "t", "i", "a", "l", "D", "a", "t", "a",
      "\"", ":", " ">>

\* a declaration of form 1 (var), 2 (window.), 3 (bare) or 4 (property)
Render(d) ==
    H_script
        \o (IF d.form = 1 THEN H_var \o d.body.text \o <<";">>
            ELSE IF d.form = 2 THEN H_window \o d.body.text \o <<";">>
            ELSE IF d.form = 3 THEN H_bare \o d.body.text \o <<";">>
            ELSE H_property \o d.body.text \o <<",">>)
        \o H_script_end

RECURSIVE RenderAll(_)
RenderAll(decls) ==
    IF decls = <<>> THEN <<>> ELSE Render(Head(decls)) \o RenderAll(Tail(decls))

Decls == [form : 1..4, body : Bodies]

RECURSIVE DeclSeqs(_)
DeclSeqs(n) ==
    IF n = 0 THEN {<<>>}
    ELSE DeclSeqs(n - 1)
            \cup {Append(ds, d) : ds \in {x \in DeclSeqs(n - 1) : Len(x) = n - 1},
                                  d \in Decls}

M_title == <<"T", " ", "\"", "x", "\"">>
M_author == <<"N", "\\">>
M_handle == <<"c", "h", ".", "1">>

\* the head of a page that states its metadata, and what it states
H_head ==
    H_video_details \o L_title_key \o JsonEscape(M_title) \o <<"\"", ",">>
        \o L_author_key \o JsonEscape(M_author) \o <<"\"", "}", "}">>
        \o H_link_open \o M_handle \o L_quote_gt

Heads ==
    {[html |-> H_head, title |-> M_title, author |-> M_author,
      channelHandle |-> M_handle],
     [html |-> <<>>, title |-> S_Unknown, author |-> S_Unknown,
      channelHandle |-> Undefined]}

ValidUrl == U_https \o U_www_youtube_com \o U_watch_q \o L_v_eq \o ID_A

FetchProbes ==
    {[url |-> ValidUrl, pageStatus |-> 200, captionStatus |-> 200,
      head |-> h, decls |-> ds, html |-> h.html \o RenderAll(ds)] :
        h \in {x \in Heads : x.html = <<>>}, ds \in DeclSeqs(MaxDecls)}
    \cup
    {[url |-> u, pageStatus |-> ps, captionStatus |-> cs,
      head |-> h, decls |-> ds, html |-> h.html \o RenderAll(ds)] :
        u \in {ValidUrl, O_hello}, ps \in {200, 404}, cs \in {200, 403},
        h \in Heads, ds \in DeclSeqs(1)}

InitFetch ==
    /\ PluginAtRest
    /\ probe \in FetchProbes
    /\ result = NotRun

\* fetchTranscript applied to the probe
RunFetchTranscript ==
    /\ result = NotRun
    /\ result' = [done |-> TRUE,
                  outcome |-> fetchTranscript(probe),
                  embedded |-> ExtractInitialData(probe.html)]
    /\ UNCHANGED <<probe, pluginVars>>

NextFetch == RunFetchTranscript

SpecFetch == InitFetch /\ [][NextFetch]_vars

(* What a page is expected to yield, read off its declarations *)

\* pattern k matches a declaration of form f
PatternMatchesForm(k, f) ==
    \/ k = 1 /\ f = 1
    \/ k = 2 /\ f = 2
    \/ k = 3 /\ f \in {1, 2, 3}
    \/ k = 4 /\ f = 4

\* the leftmost declaration pattern k matches, 0 when there is none
MatchOf(decls, k) ==
    IF \E j \in 1..Len(decls) : PatternMatchesForm(k, decls[j].form)
    THEN Min({j \in 1..Len(decls) : PatternMatchesForm(k, decls[j].form)})
    ELSE 0

\* the capture of pattern k parses: the pattern of form 4 ends its capture at
\* the first closing brace, so it cuts a nested object short
CaptureParses(d, k) == d.body.valid /\ (k = 4 => ~d.body.nested)

PatternSucceeds(decls, k) ==
    MatchOf(decls, k) # 0 /\ CaptureParses(decls[MatchOf(decls, k)], k)

\* the first pattern that matches and parses, 0 when none does
FirstSuccess(decls) ==
    IF \E k \in 1..4 : PatternSucceeds(decls, k)
    THEN Min({k \in 1..4 : PatternSucceeds(decls, k)})
    ELSE 0

ExpectedData(decls) == decls[MatchOf(decls, FirstSuccess(decls))].body

\* C5  When all four ytInitialData patterns fail, or the data found lists no
\* caption track, fetchTranscript resolves with lines = [] and the metadata
\* of the page; it rejects only with InvalidUrl (no video id in the url) or
\* NetworkError (the page fetch, or the caption fetch, is not answered 2xx).
C5_RecoverableFailuresResolve ==
    result.done =>
        LET out == result.outcome
            urlOk == probe.url = ValidUrl
            noData == FirstSuccess(probe.decls) = 0
            noTracks == ~noData /\ ~ExpectedData(probe.decls).tracks
        IN  /\ (urlOk /\ IsSuccess(probe.pageStatus) /\ (noData \/ noTracks)) =>
                  /\ out.ok
                  /\ out.response.lines = <<>>
                  /\ out.response.videoId = ID_A
                  /\ out.response.title = probe.head.title
                  /\ out.response.author = probe.head.author
                  /\ out.response.channelHandle = probe.head.channelHandle
                  /\ out.recovered = IF noData THEN "EmbeddedDataNotFound"
                                     ELSE "NoCaptionsAvailable"
            /\ ~out.ok =>
                  /\ out.error \in {"InvalidUrl", "NetworkError"}
                  /\ out.error = "InvalidUrl" <=> ~urlOk
                  /\ out.error = "NetworkError" =>
                        \/ ~IsSuccess(probe.pageStatus)
                        \/ ~IsSuccess(probe.captionStatus) /\ ~noData /\ ~noTracks

C5_Witness ==
    /\ result.done
    /\ probe.decls = <<[form |-> 4, body |-> CHOOSE b \in Bodies : b.text = B_nested]>>
    /\ probe.head.html # <<>>
    /\ probe.captionStatus = 403
    /\ result.outcome.ok
    /\ result.outcome.recovered = "EmbeddedDataNotFound"
    /\ result.outcome.response.lines = <<>>
    /\ result.outcome.response.title = M_title

C5_WitnessNoCaptions ==
    /\ result.done
    /\ Len(probe.decls) = 1
    /\ probe.decls[1].body.text = B_empty
    /\ result.outcome.ok
    /\ result.outcome.recovered = "NoCaptionsAvailable"

\* C6  The extractor tries the patterns in the order var, window., bare,
\* property, and answers the capture of the first one that matches and whose
\* capture is valid JSON; a match that does not parse counts as no match, and
\* no pattern after the successful one is tried.
C6_FirstPatternThatParses ==
    result.done =>
        IF FirstSuccess(probe.decls) = 0
        THEN ~result.embedded.found /\ result.embedded.tried = PatternCount
        ELSE /\ result.embedded.found
             /\ result.embedded.tried = FirstSuccess(probe.decls)
             /\ result.embedded.data = ExpectedData(probe.decls).text

C6_Witness ==
    /\ result.done
    /\ Len(probe.decls) = 2
    /\ probe.decls[1].form = 1 /\ probe.decls[1].body.text = B_invalid
    /\ probe.decls[2].form = 2 /\ probe.decls[2].body.text = B_tracks
    /\ YT_INITIAL_DATA_REGEX(probe.html) = B_invalid
    /\ result.embedded = [found |-> TRUE, tried |-> 2, data |-> B_tracks]

-----------------------------------------------------------------------------
(* The three commands   main.ts:75-154 *)

Commands ==
    {"summarize-youtube-video", "summarize-youtube-video-prompt",
     "save-youtube-subtitles"}

\* the operation the editorCallback of a command calls   main.ts:88, 114, 140
OperationOf(c) ==
    IF c = "save-youtube-subtitles" THEN "saveSubtitlesOnly" ELSE "summarizeVideo"

\* the selection taken as it is
TrimNothing(s) == s

\* String.prototype.trim   main.ts:83, 109, 135
Trim(s) ==
    IF \A k \in 1..Len(s) : s[k] \in Ws THEN <<>>
    ELSE SubSeq(s, Min({k \in 1..Len(s) : s[k] \notin Ws}),
                   CHOOSE k \in 1..Len(s) :
                       s[k] \notin Ws /\ \A j \in (k + 1)..Len(s) : s[j] \in Ws)

\* how many commands are run
MaxCommands == 1

\* what the editor may hold selected: the text, what it is, and for a video
\* URL the URL without the white space around it
Selections ==
    {[text |-> <<>>, kind |-> "empty", url |-> <<>>],
     [text |-> <<" ", "\n", "\t">>, kind |-> "empty", url |-> <<>>],
     [text |-> ValidUrl, kind |-> "video", url |-> ValidUrl],
     [text |-> <<" ", "\n">> \o ValidUrl \o <<"\n">>, kind |-> "video",
      url |-> ValidUrl],
     [text |-> U_youtu_be \o <<"/">> \o ID_B, kind |-> "video",
      url |-> U_youtu_be \o <<"/">> \o ID_B],
     [text |-> O_hello, kind |-> "other", url |-> <<>>],
     [text |-> <<" ">> \o U_https \o U_vimeo_com \o <<"/", "1", "2">>,
      kind |-> "other", url |-> <<>>],
     [text |-> U_https \o U_www_youtube_com \o U_channel, kind |-> "other",
      url |-> <<>>]}

\* what the URL modal may hand to its callback
ModalUrls == {ValidUrl, O_hello}

\* commands are numbered in the order in which they are run
NextCommand(i) ==
    /\ pc[i] = "idle"
    /\ \A j \in Invocations : j < i => pc[j] # "idle"
    /\ Cardinality({j \in Invocations : pc[j] # "idle"}) < MaxCommands

\* the editorCallback of the command c, up to its first await
\* main.ts:81-100, 107-126, 133-152
EditorCallback(i, c, sel) ==
    /\ NextCommand(i)
    /\ command' = [command EXCEPT ![i] = [id |-> c, selection |-> sel]]
    /\ IF Trim(sel.text) # <<>> /\ isYouTubeUrl(Trim(sel.text))
       THEN Begin(i, OperationOf(c), Trim(sel.text))
       ELSE IF Trim(sel.text) # <<>>
       THEN /\ pc' = [pc EXCEPT ![i] = "refused"]
            /\ log' = [log EXCEPT ![i] = Append(@, "notice:invalidUrl")]
            /\ UNCHANGED <<isProcessing, services, uses, vault, op, url,
                           transcript, probe, result>>
       ELSE /\ pc' = [pc EXCEPT ![i] = "modal"]
            /\ op' = [op EXCEPT ![i] = OperationOf(c)]
            /\ log' = [log EXCEPT ![i] = Append(@, "open:modal")]
            /\ UNCHANGED <<isProcessing, services, uses, vault, url,
                           transcript, probe, result>>

\* the callback of the modal   main.ts:92-94, 118-120, 144-146
ModalSubmit(i, u) ==
    /\ pc[i] = "modal"
    /\ Begin(i, op[i], u)
    /\ UNCHANGED command

\* the modal closed without a URL
ModalClose(i) ==
    /\ pc[i] = "modal"
    /\ pc' = [pc EXCEPT ![i] = "closed"]
    /\ UNCHANGED <<isProcessing, services, uses, command, vault, op, url,
                   transcript, log, probe, result>>

NextDispatch ==
    \/ \E i \in Invocations, c \in Commands, sel \in Selections :
          EditorCallback(i, c, sel)
    \/ \E i \in Invocations, u \in ModalUrls : ModalSubmit(i, u)
    \/ \E i \in Invocations : ModalClose(i)
    \/ \E i \in Invocations : Step(i)

SpecDispatch == Init /\ [][NextDispatch]_vars

\* the operation has been called for the command i
Called(i) == pc[i] \in Active \cup {"done", "rejected"}

\* the operation the claim names for a command
ClaimedOperation(c) ==
    CASE c = "summarize-youtube-video" -> "summarizeVideo"
      [] c = "summarize-youtube-video-prompt" -> "summarizeVideo"
      [] c = "save-youtube-subtitles" -> "saveSubtitlesOnly"

\* C17  For each of the three commands: a selection that, trimmed, is a video
\* URL goes to the command's operation as its url, with no modal; one that is
\* not empty and not a video URL gets a notice and nothing else (no modal, no
\* fetch, the busy flag and the vault as they were); an empty one opens the
\* URL modal, and the operation is called only by the modal's callback.
C17_CommandDispatch ==
    /\ [](\A i \in Invocations :
            pc[i] # "idle" =>
                LET sel == command[i].selection
                IN  /\ sel.kind = "video" =>
                          /\ Called(i)
                          /\ url[i] = sel.url
                          /\ op[i] = ClaimedOperation(command[i].id)
                          /\ ~Has(log[i], "open:modal")
                          /\ ~Has(log[i], "notice:invalidUrl")
                    /\ sel.kind = "other" =>
                          /\ pc[i] = "refused"
                          /\ log[i] = <<"notice:invalidUrl">>
                          /\ op[i] = "none" /\ url[i] = "none"
                          /\ transcript[i] = NoTranscript
                    /\ sel.kind = "empty" =>
                          /\ log[i][1] = "open:modal"
                          /\ Count(log[i], "open:modal") = 1
                          /\ op[i] = ClaimedOperation(command[i].id)
                          /\ pc[i] \in {"modal", "closed"} =>
                                (log[i] = <<"open:modal">> /\ url[i] = "none")
                    /\ (Called(i) /\ ~Has(log[i], "open:modal")) => sel.kind = "video")
    /\ [][\A i \in Invocations :
            /\ (pc[i] = "idle" /\ pc'[i] \in {"refused", "modal"}) =>
                  /\ isProcessing' = isProcessing
                  /\ vault' = vault
                  /\ \A j \in Invocations \ {i} :
                        pc'[j] = pc[j] /\ log'[j] = log[j]
            /\ pc[i] \in {"refused", "closed"} =>
                  (pc'[i] = pc[i] /\ log'[i] = log[i])]_vars

\* the subtitles command with nothing selected, its operation called by the
\* modal's callback
C17_Witness ==
    \E i \in Invocations :
        /\ command[i].selection.kind = "empty"
        /\ command[i].id = "save-youtube-subtitles"
        /\ pc[i] = "fetching" /\ op[i] = "saveSubtitlesOnly"
        /\ url[i] = ValidUrl /\ isProcessing

\* a channel page selected: the notice and nothing else
C17_WitnessRefused ==
    \E i \in Invocations :
        /\ command[i].selection.text = U_https \o U_www_youtube_com \o U_channel
        /\ pc[i] = "refused" /\ ~isProcessing

C17_WitnessTrimmed ==
    \E i \in Invocations :
        /\ command[i].selection.text # command[i].selection.url
        /\ command[i].selection.kind = "video"
        /\ command[i].id = "summarize-youtube-video-prompt"
        /\ Has(log[i], "notice:saved")

=============================================================================
